---------------------------- MODULE Spec2Model ----------------------------
(***************************************************************************)
(* The Cilk Plus / OpenMP SIMD validation prototype: four small programs   *)
(* that initialise an 8-element input and flag vector from fixed tables,   *)
(* apply two elementwise transforms, reduce three vectors to scalars and   *)
(* print the results; two of them repeat the pipeline ITERATIONS times     *)
(* between two clock() readings.                                           *)
(*                                                                         *)
(*   cilk_test      src/src/common.h:32-69          single shot            *)
(*   cilk_timed     src/unnamed/part_000:18-80      repetition mode        *)
(*   openmp_simd    src/src/openmp_simd_test.c:17-122  repetition mode     *)
(*   cilk_simple    src/src/openmp_simd_test.c:134-169 single shot         *)
(*                                                                         *)
(* A double is modelled exactly: a finite binary64 value is a sign and a   *)
(* magnitude, the magnitude an integer multiple of 2^-60 held in four      *)
(* 24-bit limbs (least significant first).  Addition and division round    *)
(* to 53 significant bits, ties to even, as IEEE 754 does.  log and exp    *)
(* are the C library's: their results for the arguments the programs pass  *)
(* are tabulated.                                                          *)
(***************************************************************************)
EXTENDS Integers, Sequences, FiniteSets, TLC

VLENGTH == 8
ITERATIONS == 100
DBL_MANT_DIG == 53
PRINT_DIGITS == 15

Idx == 0 .. (VLENGTH - 1)

(***************************************************************************)
(* Unsigned multi-limb integers.                                           *)
(***************************************************************************)
LimbBits == 24
Base == 2 ^ LimbBits
FracBits == 60
NLimbs == 4

BZero == <<0, 0, 0, 0>>

\* The element of the singleton S.  The({e : v \in {a}}) is e with v = a, a
\* being evaluated once however often e uses v.
The(S) == CHOOSE r \in S : TRUE

\* 2^k as a limb vector, 0 <= k < NLimbs * LimbBits
BPow2(k) ==
    The({<<IF n \div LimbBits = 0 THEN 2 ^ (n % LimbBits) ELSE 0,
           IF n \div LimbBits = 1 THEN 2 ^ (n % LimbBits) ELSE 0,
           IF n \div LimbBits = 2 THEN 2 ^ (n % LimbBits) ELSE 0,
           IF n \div LimbBits = 3 THEN 2 ^ (n % LimbBits) ELSE 0>> : n \in {k}})

BOne == BPow2(FracBits)

BAdd(a, b) ==
    The({LET s1 == x[1] + y[1]
             s2 == x[2] + y[2] + (s1 \div Base)
             s3 == x[3] + y[3] + (s2 \div Base)
             s4 == x[4] + y[4] + (s3 \div Base)
         IN  <<s1 % Base, s2 % Base, s3 % Base, s4>> : x \in {a}, y \in {b}})

\* a - b for a >= b
BSub(a, b) ==
    The({LET d1 == x[1] - y[1]
             c1 == IF d1 < 0 THEN 1 ELSE 0
             d2 == x[2] - y[2] - c1
             c2 == IF d2 < 0 THEN 1 ELSE 0
             d3 == x[3] - y[3] - c2
             c3 == IF d3 < 0 THEN 1 ELSE 0
             d4 == x[4] - y[4] - c3
         IN  <<d1 + c1 * Base, d2 + c2 * Base, d3 + c3 * Base, d4>> : x \in {a}, y \in {b}})

BLess(a, b) ==
    \E x \in {a}, y \in {b} :
        \/ x[4] < y[4]
        \/ x[4] = y[4] /\ x[3] < y[3]
        \/ x[4] = y[4] /\ x[3] = y[3] /\ x[2] < y[2]
        \/ x[4] = y[4] /\ x[3] = y[3] /\ x[2] = y[2] /\ x[1] < y[1]

BLeq(a, b) == ~BLess(b, a)

BMul10(a) ==
    The({LET s1 == x[1] * 10
             s2 == x[2] * 10 + (s1 \div Base)
             s3 == x[3] * 10 + (s2 \div Base)
             s4 == x[4] * 10 + (s3 \div Base)
         IN  <<s1 % Base, s2 % Base, s3 % Base, s4>> : x \in {a}})

RECURSIVE IntBitLen(_)
IntBitLen(x) == IF x = 0 THEN 0 ELSE 1 + IntBitLen(x \div 2)

\* position of the highest set bit, counted from 1; 0 for zero
BBitLen(a) ==
    The({IF x[4] > 0 THEN 3 * LimbBits + IntBitLen(x[4])
         ELSE IF x[3] > 0 THEN 2 * LimbBits + IntBitLen(x[3])
         ELSE IF x[2] > 0 THEN LimbBits + IntBitLen(x[2])
         ELSE IntBitLen(x[1]) : x \in {a}})

\* bit number k (from 0) of a
BBit(a, k) == The({(a[(n \div LimbBits) + 1] \div (2 ^ (n % LimbBits))) % 2 : n \in {k}})

\* the limb x of index j (from 1) mod 2^s
LimbLow(x, j, s) ==
    IF j * LimbBits <= s THEN x
    ELSE IF (j - 1) * LimbBits >= s THEN 0
    ELSE x % (2 ^ (s - (j - 1) * LimbBits))

\* a mod 2^s
BLow(a, s) ==
    The({<<LimbLow(x[1], 1, n), LimbLow(x[2], 2, n), LimbLow(x[3], 3, n), LimbLow(x[4], 4, n)>> :
             x \in {a}, n \in {s}})

\* floor(a / 2^FracBits) for a < 2^(FracBits + 30), as an integer
BIntPart(a) ==
    The({(x[3] \div (2 ^ (FracBits - 2 * LimbBits))) + x[4] * (2 ^ (3 * LimbBits - FracBits)) :
             x \in {a}})

\* v cut to a multiple of 2^s, s > 0, to nearest, ties to even
BRoundAt(v, s, sticky) ==
    The({LET up == \/ BLess(half, low)
                   \/ low = half /\ (sticky \/ BBit(v, s) = 1)
         IN  IF up THEN BAdd(cut, BPow2(s)) ELSE cut :
             low \in {BLow(v, s)}, half \in {BPow2(s - 1)}, cut \in {BSub(v, BLow(v, s))}})

\* a rounded to DBL_MANT_DIG significant bits, ties to even; sticky says that
\* a nonzero amount below a's unit was already cut off
BRound(a, sticky) ==
    The({The({IF s <= 0 THEN v ELSE BRoundAt(v, s, sticky) :
                  s \in {BBitLen(v) - DBL_MANT_DIG}}) : v \in {a}})

\* Restoring division of (n * 2^FracBits) by d.  A state is the index hi of
\* the dividend's next bit (from the top down to 0), the quotient q and the
\* remainder r so far.
BDivStep(n, d, st) ==
    The({The({IF BLeq(d, r2)
              THEN [hi |-> t.hi - 1, q |-> BAdd(BAdd(t.q, t.q), <<1, 0, 0, 0>>),
                    r |-> BSub(r2, d)]
              ELSE [hi |-> t.hi - 1, q |-> BAdd(t.q, t.q), r |-> r2] :
                  r2 \in {BAdd(BAdd(t.r, t.r),
                               <<IF t.hi >= FracBits THEN BBit(n, t.hi - FracBits) ELSE 0,
                                 0, 0, 0>>)}}) : t \in {st}})

\* up to k steps from st, stopping after bit 0
RECURSIVE BDivRun(_, _, _, _)
BDivRun(n, d, st, k) ==
    The({IF t.hi < 0 THEN t
         ELSE IF k = 1 THEN BDivStep(n, d, t)
         ELSE BDivRun(n, d, BDivRun(n, d, t, k \div 2), k - (k \div 2)) : t \in {st}})

\* <<quotient, remainder>>
BDiv(n, d) ==
    The({<<t.q, t.r>> :
             t \in {BDivRun(n, d, [hi |-> BBitLen(n) + FracBits - 1, q |-> BZero, r |-> BZero],
                            NLimbs * LimbBits + FracBits)}})

(***************************************************************************)
(* double.  k = "fin": the finite value (-1)^neg * m * 2^-FracBits;        *)
(* k = "exc": a NaN or an infinity (a domain or pole error);               *)
(* k = "indet": an indeterminate value (an uninitialised object, or a      *)
(* result outside the range this representation holds exactly).           *)
(***************************************************************************)
Fin(neg, m) == The({[k |-> "fin", neg |-> neg /\ v # BZero, m |-> v] : v \in {m}})
Exc == [k |-> "exc", neg |-> FALSE, m |-> BZero]
Indet == [k |-> "indet", neg |-> FALSE, m |-> BZero]

IsFin(x) == x.k = "fin"
IsZero(x) == \E a \in {x} : IsFin(a) /\ a.m = BZero
IsPositive(x) == \E a \in {x} : IsFin(a) /\ ~a.neg /\ a.m # BZero

\* the largest magnitude kept: below 2^30
InRange(m) == BBitLen(m) <= FracBits + 30

\* -x
FNeg(x) == The({IF IsFin(a) THEN Fin(~a.neg, a.m) ELSE a : a \in {x}})

\* x + y, rounded to nearest, ties to even
FAdd(x, y) ==
    The({IF a.k = "indet" \/ b.k = "indet" THEN Indet
         ELSE IF a.k = "exc" \/ b.k = "exc" THEN Exc
         ELSE The({IF InRange(r.m) THEN r ELSE Indet :
                       r \in {IF a.neg = b.neg THEN Fin(a.neg, BRound(BAdd(a.m, b.m), FALSE))
                              ELSE IF BLess(a.m, b.m)
                                   THEN Fin(b.neg, BRound(BSub(b.m, a.m), FALSE))
                              ELSE Fin(a.neg, BRound(BSub(a.m, b.m), FALSE))}}) :
             a \in {x}, b \in {y}})

\* x * 2.0: exact
FMul2(x) ==
    The({IF ~IsFin(a) THEN a
         ELSE IF InRange(BAdd(a.m, a.m)) THEN Fin(a.neg, BAdd(a.m, a.m)) ELSE Indet : a \in {x}})

\* the quotient of the finite a by the finite b # 0
FDivFin(a, b) ==
    The({IF qr[2] # BZero /\ BBitLen(qr[1]) <= DBL_MANT_DIG THEN Indet
         ELSE Fin(a.neg # b.neg, BRound(qr[1], qr[2] # BZero)) : qr \in {BDiv(a.m, b.m)}})

\* x / y, rounded to nearest, ties to even; a zero divisor gives an infinity or a NaN
FDiv(x, y) ==
    The({IF a.k = "indet" \/ b.k = "indet" THEN Indet
         ELSE IF a.k = "exc" \/ b.k = "exc" \/ IsZero(b) THEN Exc
         ELSE IF IsZero(a) THEN Fin(FALSE, BZero)
         ELSE IF BBitLen(a.m) - BBitLen(b.m) >= 30 THEN Indet
         ELSE FDivFin(a, b) : a \in {x}, b \in {y}})

(***************************************************************************)
(* The fixed tables of common.h, each literal the binary64 value nearest   *)
(* to it.                                                                  *)
(***************************************************************************)
TEST_INPUT ==
    [j \in Idx |->
        Fin(FALSE, << <<10066336, 10066329, 409, 0>>,     \* 0.1 = 0x1.999999999999ap-4
                      <<3355456, 3355443, 819, 0>>,       \* 0.2 = 0x1.999999999999ap-3
                      <<13421760, 13421772, 1228, 0>>,    \* 0.3 = 0x1.3333333333333p-2
                      <<6710912, 6710886, 1638, 0>>,      \* 0.4 = 0x1.999999999999ap-2
                      <<0, 0, 2048, 0>>,                  \* 0.5 = 0x1.0000000000000p-1
                      <<10066304, 10066329, 2457, 0>>,    \* 0.6 = 0x1.3333333333333p-1
                      <<3355392, 3355443, 2867, 0>>,      \* 0.7 = 0x1.6666666666666p-1
                      <<13421824, 13421772, 3276, 0>> >>[j + 1])]   \* 0.8 = 0x1.999999999999ap-1

TEST_FLAGS == [j \in Idx |-> <<1, 0, 1, 1, 0, 0, 1, 1>>[j + 1]]

\* Variant: the literal is -0.1, so that input[0] + literal is zero.
\* SafeDomain rejects it.
Lit0_1Negative == Fin(TRUE, <<10066336, 10066329, 409, 0>>)

\* the literal 0.1 of intermediate = exp(-input) / (input + 0.1)
Lit0_1 == Fin(FALSE, <<10066336, 10066329, 409, 0>>)
\* the literal 0.0 an accumulator starts from
Lit0_0 == Fin(FALSE, BZero)

(***************************************************************************)
(* libm.  log(x) and exp(-x) for the eight arguments of TEST_INPUT, as     *)
(* glibc returns them; log of zero or of a negative number is -infinity    *)
(* or a NaN; other arguments are not tabulated.                            *)
(***************************************************************************)
LibmLogTable ==
    << <<11151872, 6518634, 9431, 0>>,     \* log(0.1) = -0x1.26bb1bbb55515p+1
       <<9253632, 4323309, 6592, 0>>,      \* log(0.2) = -0x1.9c041f7ed8d33p+0
       <<10952960, 7929021, 4931, 0>>,     \* log(0.3) = -0x1.34378fcbda721p+0
       <<7355264, 2127984, 3753, 0>>,      \* log(0.4) = -0x1.d5240f0e0e077p-1
       <<1898368, 2195325, 2839, 0>>,      \* log(0.5) = -0x1.62e42fefa39efp-1
       <<9054464, 5733696, 2092, 0>>,      \* log(0.6) = -0x1.058aefa811452p-1
       <<5231616, 15780152, 1460, 0>>,     \* log(0.7) = -0x1.6d3c324e13f50p-2
       <<5456896, 16709875, 913, 0>> >>    \* log(0.8) = -0x1.c8ff7c79a9a20p-3

LibmExpTable ==
    << <<9805056, 3591402, 3706, 0>>,      \* exp(-0.1) = 0x1.cf46d99d52b3ap-1
       <<3189888, 8743691, 3353, 0>>,      \* exp(-0.2) = 0x1.a330ad6166159p-1
       <<12452480, 6567137, 3034, 0>>,     \* exp(-0.3) = 0x1.7b4c869c37c05p-1
       <<3700480, 10584889, 2745, 0>>,     \* exp(-0.4) = 0x1.57343067270eep-1
       <<13305088, 5865015, 2484, 0>>,     \* exp(-0.5) = 0x1.368b2fc6f960ap-1
       <<160128, 15644107, 2247, 0>>,      \* exp(-0.6) = 0x1.18fdd6b9604e3p-1
       <<5591168, 224887, 2034, 0>>,       \* exp(-0.7) = 0x1.fc80db9dd5542p-2
       <<7791104, 7573856, 1840, 0>> >>    \* exp(-0.8) = 0x1.cc1ce4581db88p-2

Tabulated(m) == \E j \in Idx : TEST_INPUT[j].m = m
TabIndex(m) == CHOOSE j \in Idx : TEST_INPUT[j].m = m

log(x) ==
    IF x.k = "indet" THEN Indet
    ELSE IF x.k = "exc" \/ ~IsPositive(x) THEN Exc
    ELSE IF Tabulated(x.m) THEN Fin(TRUE, LibmLogTable[TabIndex(x.m) + 1])
    ELSE Indet

exp(x) ==
    IF x.k = "indet" THEN Indet
    ELSE IF x.k = "exc" THEN Exc
    ELSE IF x.neg /\ Tabulated(x.m) THEN Fin(FALSE, LibmExpTable[TabIndex(x.m) + 1])
    ELSE Indet

(***************************************************************************)
(* printf.  "%d" of an int is the int.  "%.15g" of a double is the text    *)
(* determined by its sign, its decimal exponent and its PRINT_DIGITS       *)
(* significant decimal digits (the exact binary value rounded, ties to     *)
(* even), trailing zeros removed; style "e" is the exponent form %g        *)
(* switches to.                                                            *)
(***************************************************************************)
RECURSIVE IntDigits(_)
IntDigits(n) == IF n < 10 THEN <<n>> ELSE Append(IntDigits(n \div 10), n % 10)

\* the next n decimal digits of the fraction f (f < 2^FracBits), and what is left
RECURSIVE FracDigits(_, _, _)
FracDigits(f, n, acc) ==
    The({IF n = 0 THEN <<ds, g>>
         ELSE The({FracDigits(BLow(f10, FracBits), n - 1, Append(ds, BIntPart(f10))) :
                       f10 \in {BMul10(g)}}) : g \in {f}, ds \in {acc}})

\* the number of zero digits the fraction f # 0 starts with
RECURSIVE LeadingZeros(_)
LeadingZeros(f) ==
    The({IF BIntPart(f10) > 0 THEN 0 ELSE 1 + LeadingZeros(BLow(f10, FracBits)) :
             f10 \in {BMul10(f)}})

\* f * 10^n mod 1
RECURSIVE SkipDigits(_, _)
SkipDigits(f, n) ==
    The({IF n = 0 THEN g ELSE SkipDigits(BLow(BMul10(g), FracBits), n - 1) : g \in {f}})

\* the digit string ds plus one in its last place; <<>> when every digit was 9
RECURSIVE IncDigits(_)
IncDigits(ds) ==
    The({IF d = <<>> THEN <<>>
         ELSE IF d[Len(d)] < 9 THEN [d EXCEPT ![Len(d)] = d[Len(d)] + 1]
         ELSE The({IF h = <<>> THEN <<>> ELSE Append(h, 0) :
                       h \in {IncDigits(SubSeq(d, 1, Len(d) - 1))}}) : d \in {ds}})

RECURSIVE StripZeros(_)
StripZeros(ds) ==
    The({IF Len(d) > 1 /\ d[Len(d)] = 0 THEN StripZeros(SubSeq(d, 1, Len(d) - 1)) ELSE d :
             d \in {ds}})

Text(style, neg, e10, ds) == [style |-> style, neg |-> neg, e10 |-> e10, digits |-> ds]

\* the text of the digits ds (before rounding), what is left below them being
\* rest, of a number of sign neg and decimal exponent e10
RoundedText(neg, e10, ds, rest) ==
    The({The({Text(IF e < -4 \/ e >= PRINT_DIGITS THEN "e" ELSE "f", neg, e,
                   StripZeros(IF ~up THEN ds ELSE IF inc = <<>> THEN <<1>> ELSE inc)) :
                  inc \in {IncDigits(ds)},
                  e \in {IF up /\ IncDigits(ds) = <<>> THEN e10 + 1 ELSE e10}}) :
             up \in {\/ BLess(BPow2(FracBits - 1), rest)
                     \/ (rest = BPow2(FracBits - 1) /\ ds[Len(ds)] % 2 = 1)}})

\* the text of the number of sign neg whose integer part has the digits lead
\* (none for 0) and whose fraction fr starts with z zeros
DigitsText(neg, lead, z, fr) ==
    The({RoundedText(neg, IF lead # <<>> THEN Len(lead) - 1 ELSE 0 - (z + 1), gen[1], gen[2]) :
             gen \in {FracDigits(SkipDigits(fr, z), PRINT_DIGITS - Len(lead), lead)}})

FormatG(x) ==
    The({IF a.k = "indet" THEN Text("indet", FALSE, 0, <<>>)
         ELSE IF a.k = "exc" THEN Text("nan", FALSE, 0, <<>>)
         ELSE IF a.m = BZero THEN Text("f", FALSE, 0, <<0>>)
         ELSE The({DigitsText(a.neg, lead, z, fr) :
                       lead \in {IF BIntPart(a.m) > 0 THEN IntDigits(BIntPart(a.m)) ELSE <<>>},
                       fr \in {BLow(a.m, FracBits)},
                       z \in {IF BIntPart(a.m) > 0 THEN 0
                              ELSE LeadingZeros(BLow(a.m, FracBits))}}) : a \in {x}})

(***************************************************************************)
(* The comparison the validation applies to two floating-point fields:     *)
(* |x - y| <= 1e-12 and |x - y| <= 1e-12 * max(|x|, |y|).                  *)
(***************************************************************************)
RECURSIVE BMulPow10(_, _)
BMulPow10(a, n) == IF n = 0 THEN a ELSE BMulPow10(BMul10(a), n - 1)

TOL_DIGITS == 12

WithinTol(x, y) ==
    \E a \in {x}, b \in {y} :
        /\ IsFin(a) /\ IsFin(b)
        /\ \E d \in {FAdd(a, FNeg(b))} :
               /\ IsFin(d)
               /\ BBitLen(d.m) <= 30
               /\ \E t \in {BMulPow10(d.m, TOL_DIGITS)} :
                      /\ BLeq(t, BOne)
                      /\ BLeq(t, IF BLess(a.m, b.m) THEN b.m ELSE a.m)

(***************************************************************************)
(* The programs.                                                           *)
(***************************************************************************)
Programs == {"cilk_test", "cilk_timed", "openmp_simd", "cilk_simple"}
TimedPrograms == {"cilk_timed", "openmp_simd"}

\* The SIMD widths (doubles per vector) a build may give the array sections
\* and the simd loops: scalar, SSE2, AVX, AVX-512.
Widths == {1, 2, 4, 8}

\* clock() counts ticks (microseconds) from its first reading and returns at
\* most this many in a run
MaxClock == 1

\* an int object that holds no value yet
IntIndet == 0 - 2 ^ 30

VARIABLES
    prog,           \* the program that runs
    vec,            \* the SIMD width of its build
    pc,             \* the statement about to run
    phase,          \* "loop": inside the repetition loop; "final": after it (or no loop)
    i,              \* the index variable of the init and print loops
    lanes,          \* the indices the running transform has stored so far
    input, flags, output, intermediate,
    count, sum, sum2,
    acc_sum, acc_sum2, acc_count,
    iter, start, end, elapsed_ms,
    stdout,         \* the lines printed so far
    status,         \* the exit code; IntIndet while the program runs
    \* history
    bodies,         \* loop bodies completed
    runsA, runsB,   \* runs of transform A, B started
    stampA, stampB, \* per index: the run of the transform that stored the entry last
    redPhase,       \* the phase in which count, sum and sum2 were computed last
    domainOK        \* every log, exp and division so far had a safe operand

vars == <<prog, vec, pc, phase, i, lanes, input, flags, output, intermediate,
          count, sum, sum2, acc_sum, acc_sum2, acc_count, iter, start, end,
          elapsed_ms, stdout, status, bodies, runsA, runsB, stampA, stampB,
          redPhase, domainOK>>

arrays == <<input, flags, output, intermediate>>
scalars == <<count, sum, sum2>>
accs == <<acc_sum, acc_sum2, acc_count>>
clocks == <<start, end, elapsed_ms>>
history == <<bodies, runsA, runsB, stampA, stampB, redPhase, domainOK>>

Timed == prog \in TimedPrograms

(***************************************************************************)
(* Elementwise transforms.  ElemA/ElemB give the value the assignment of   *)
(* one index stores, read from the arrays as they are at that moment.      *)
(***************************************************************************)
\* -log(x) * 2.0
ExprA(x) == FMul2(FNeg(log(x)))

\* exp(-x) / (x + 0.1)
ExprB(x) == FDiv(exp(FNeg(x)), FAdd(x, Lit0_1))

\* the two expressions at the table's values, evaluated once (entry j + 1 for index j)
ExprAOfTable ==
    <<ExprA(TEST_INPUT[0]), ExprA(TEST_INPUT[1]), ExprA(TEST_INPUT[2]), ExprA(TEST_INPUT[3]),
      ExprA(TEST_INPUT[4]), ExprA(TEST_INPUT[5]), ExprA(TEST_INPUT[6]), ExprA(TEST_INPUT[7])>>
ExprBOfTable ==
    <<ExprB(TEST_INPUT[0]), ExprB(TEST_INPUT[1]), ExprB(TEST_INPUT[2]), ExprB(TEST_INPUT[3]),
      ExprB(TEST_INPUT[4]), ExprB(TEST_INPUT[5]), ExprB(TEST_INPUT[6]), ExprB(TEST_INPUT[7])>>
OfTable(x) == IsPositive(x) /\ Tabulated(x.m)

\* Variant: the entry also takes in its left neighbour, a dependency across
\* indices.  LanesIndependent rejects it.
ElemAWithCarry(inp, out, lane) ==
    IF lane = 0 THEN ExprA(inp[lane]) ELSE FAdd(ExprA(inp[lane]), out[lane - 1])

\* output[i] = -log(input[i]) * 2.0
ElemA(inp, out, lane) ==
    IF OfTable(inp[lane]) THEN ExprAOfTable[TabIndex(inp[lane].m) + 1] ELSE ExprA(inp[lane])

\* intermediate[i] = exp(-input[i]) / (input[i] + 0.1)
ElemB(inp, mid, lane) ==
    IF OfTable(inp[lane]) THEN ExprBOfTable[TabIndex(inp[lane].m) + 1] ELSE ExprB(inp[lane])

\* the operands are in the domain of log, of exp and of the division
SafeA(x) == IsPositive(x)
SafeB(x) == LET d == FAdd(x, Lit0_1) IN IsFin(x) /\ IsFin(d) /\ ~IsZero(d)
\* SafeB at the table's values, evaluated once (entry j + 1 for index j)
SafeBOfTable ==
    <<SafeB(TEST_INPUT[0]), SafeB(TEST_INPUT[1]), SafeB(TEST_INPUT[2]), SafeB(TEST_INPUT[3]),
      SafeB(TEST_INPUT[4]), SafeB(TEST_INPUT[5]), SafeB(TEST_INPUT[6]), SafeB(TEST_INPUT[7])>>
DivisorSafe(x) == IF OfTable(x) THEN SafeBOfTable[TabIndex(x.m) + 1] ELSE SafeB(x)

\* A build of width w stores the indices in blocks of w, block after block;
\* the order within a block is not fixed.
MayStore(lane, done, w) ==
    /\ lane \notin done
    /\ \A j \in Idx : (j \div w) < (lane \div w) => j \in done

(***************************************************************************)
(* Reductions.  A build of width w keeps w partial sums, index i added     *)
(* into partial sum i mod w in ascending order, and adds the partial sums  *)
(* pairwise at the end; w = 1 is the sequential sum from zero.             *)
(***************************************************************************)
\* Variant: the partial sums leave out the last index.
\* ReductionIsSequentialSum rejects it.
RECURSIVE StrideSumShort(_, _, _, _)
StrideSumShort(v, w, j, acc) ==
    IF j >= VLENGTH - 1 THEN acc ELSE StrideSumShort(v, w, j + w, FAdd(acc, v[j]))

RECURSIVE StrideSum(_, _, _, _)
StrideSum(v, w, j, acc) ==
    IF j >= VLENGTH THEN acc ELSE StrideSum(v, w, j + w, FAdd(acc, v[j]))

RECURSIVE HAdd(_, _)
HAdd(p, n) ==
    IF n = 1 THEN p[0]
    ELSE HAdd([j \in 0 .. (n \div 2) - 1 |-> FAdd(p[j], p[j + (n \div 2)])], n \div 2)

ReduceAdd(v, w) == HAdd([j \in 0 .. w - 1 |-> StrideSum(v, w, j, Lit0_0)], w)

IAdd(a, b) == The({IF x = IntIndet \/ y = IntIndet THEN IntIndet ELSE x + y : x \in {a}, y \in {b}})

\* Variant: the partial counts leave out the last index.  CountIsFive rejects it.
RECURSIVE IStrideSumShort(_, _, _, _)
IStrideSumShort(v, w, j, acc) ==
    IF j >= VLENGTH - 1 THEN acc ELSE IStrideSumShort(v, w, j + w, IAdd(acc, v[j]))

RECURSIVE IStrideSum(_, _, _, _)
IStrideSum(v, w, j, acc) ==
    IF j >= VLENGTH THEN acc ELSE IStrideSum(v, w, j + w, IAdd(acc, v[j]))

RECURSIVE IHAdd(_, _)
IHAdd(p, n) ==
    IF n = 1 THEN p[0]
    ELSE IHAdd([j \in 0 .. (n \div 2) - 1 |-> IAdd(p[j], p[j + (n \div 2)])], n \div 2)

IReduceAdd(v, w) == IHAdd([j \in 0 .. w - 1 |-> IStrideSum(v, w, j, 0)], w)

\* __sec_reduce_add(a[0:VLENGTH]) of the array-notation programs
sec_reduce_add(v, w) == ReduceAdd(v, w)
sec_reduce_add_int(v, w) == IReduceAdd(v, w)

\* Variant: the simd loop starts at index 1.  ImplementationsAgree rejects it.
OmpReductionFromOne(v, w) == ReduceAdd([j \in Idx |-> IF j = 0 THEN Lit0_0 ELSE v[j]], w)

\* x = 0; #pragma omp simd reduction(+:x) for (...) x += a[i];
omp_simd_reduction(v, w) == ReduceAdd(v, w)
omp_simd_reduction_int(v, w) == IReduceAdd(v, w)

Reduce(v) == IF prog = "openmp_simd" THEN omp_simd_reduction(v, vec) ELSE sec_reduce_add(v, vec)
ReduceInt(v) ==
    IF prog = "openmp_simd" THEN omp_simd_reduction_int(v, vec) ELSE sec_reduce_add_int(v, vec)

(***************************************************************************)
(* Output lines.                                                           *)
(***************************************************************************)
NoText == Text("none", FALSE, 0, <<>>)
IntLine(key, n) == [key |-> key, idx |-> 0 - 1, int |-> n, txt |-> NoText]
IdxLine(key, j, x) == [key |-> key, idx |-> j, int |-> 0, txt |-> FormatG(x)]
DblLine(key, x) == [key |-> key, idx |-> 0 - 1, int |-> 0, txt |-> FormatG(x)]

(***************************************************************************)
(* The state at the start of main: the arrays and the scalars declared     *)
(* without an initialiser hold no value.                                   *)
(***************************************************************************)
Init ==
    /\ prog \in Programs
    /\ vec \in Widths
    /\ pc = "init"
    /\ phase = "none"
    /\ i = 0
    /\ lanes = {}
    /\ input = [j \in Idx |-> Indet]
    /\ flags = [j \in Idx |-> IntIndet]
    /\ output = [j \in Idx |-> Indet]
    /\ intermediate = [j \in Idx |-> Indet]
    /\ count = IntIndet /\ sum = Indet /\ sum2 = Indet
    /\ acc_sum = Lit0_0 /\ acc_sum2 = Lit0_0 /\ acc_count = 0
    /\ iter = IntIndet /\ start = IntIndet /\ end = IntIndet /\ elapsed_ms = IntIndet
    /\ stdout = <<>>
    /\ status = IntIndet
    /\ bodies = 0 /\ runsA = 0 /\ runsB = 0
    /\ stampA = [j \in Idx |-> 0] /\ stampB = [j \in Idx |-> 0]
    /\ redPhase = [count |-> "none", sum |-> "none", sum2 |-> "none"]
    /\ domainOK = TRUE

\* for (int i = 0; i < VLENGTH; i++) { input[i] = TEST_INPUT[i]; flags[i] = TEST_FLAGS[i]; }
Initialize ==
    /\ pc = "init" /\ i < VLENGTH
    /\ input' = [input EXCEPT ![i] = TEST_INPUT[i]]
    /\ flags' = [flags EXCEPT ![i] = TEST_FLAGS[i]]
    /\ i' = i + 1
    /\ UNCHANGED <<prog, vec, pc, phase, lanes, output, intermediate, scalars, accs,
                   iter, clocks, stdout, status, history>>

\* the init loop ends: the timed programs read the clock next, the others transform
InitDone ==
    /\ pc = "init" /\ i >= VLENGTH
    /\ pc' = IF Timed THEN "clock_start" ELSE "transform_a"
    /\ phase' = IF Timed THEN phase ELSE "final"
    /\ UNCHANGED <<prog, vec, i, lanes, arrays, scalars, accs, iter, clocks, stdout,
                   status, history>>

\* clock_t start = clock(); for (int iter = 0; ...
\* (the ticks are counted from this reading)
ClockStart ==
    /\ pc = "clock_start"
    /\ start' = 0
    /\ iter' = 0
    /\ pc' = "loop"
    /\ UNCHANGED <<prog, vec, phase, i, lanes, arrays, scalars, accs, end, elapsed_ms,
                   stdout, status, history>>

\* Variant: the loop condition is iter <= ITERATIONS.  TerminatesWithZero
\* rejects it.
LoopEnterOnceMore ==
    /\ pc = "loop" /\ iter <= ITERATIONS
    /\ pc' = "transform_a"
    /\ phase' = "loop"
    /\ UNCHANGED <<prog, vec, i, lanes, arrays, scalars, accs, iter, clocks, stdout,
                   status, history>>

\* iter < ITERATIONS: the body runs
LoopEnter ==
    /\ pc = "loop" /\ iter < ITERATIONS
    /\ pc' = "transform_a"
    /\ phase' = "loop"
    /\ UNCHANGED <<prog, vec, i, lanes, arrays, scalars, accs, iter, clocks, stdout,
                   status, history>>

\* iter < ITERATIONS fails: the loop ends
LoopExit ==
    /\ pc = "loop" /\ iter >= ITERATIONS
    /\ pc' = "clock_end"
    /\ UNCHANGED <<prog, vec, phase, i, lanes, arrays, scalars, accs, iter, clocks,
                   stdout, status, history>>

\* Variant: the transform leaves the last entry as it was, a partial update.
\* FullyRecomputed rejects it.
TransformASkipsLast(lane) ==
    /\ pc = "transform_a"
    /\ MayStore(lane, lanes, vec)
    /\ output' = IF lane = VLENGTH - 1 THEN output
                 ELSE [output EXCEPT ![lane] = ElemA(input, output, lane)]
    /\ runsA' = IF lanes = {} THEN runsA + 1 ELSE runsA
    /\ stampA' = IF lane = VLENGTH - 1 THEN stampA ELSE [stampA EXCEPT ![lane] = runsA']
    /\ domainOK' = (domainOK /\ SafeA(input[lane]))
    /\ IF lanes \cup {lane} = Idx
       THEN lanes' = {} /\ pc' = "transform_b"
       ELSE lanes' = lanes \cup {lane} /\ pc' = pc
    /\ UNCHANGED <<prog, vec, phase, i, input, flags, intermediate, scalars, accs, iter,
                   clocks, stdout, status, bodies, runsB, stampB, redPhase>>

\* output[vALL] = -log(input[vALL]) * 2.0;  or the simd loop over output[i]:
\* one index is stored
TransformA(lane) ==
    /\ pc = "transform_a"
    /\ MayStore(lane, lanes, vec)
    /\ output' = [output EXCEPT ![lane] = ElemA(input, output, lane)]
    /\ runsA' = IF lanes = {} THEN runsA + 1 ELSE runsA
    /\ stampA' = [stampA EXCEPT ![lane] = runsA']
    /\ domainOK' = (domainOK /\ SafeA(input[lane]))
    /\ IF lanes \cup {lane} = Idx
       THEN lanes' = {} /\ pc' = "transform_b"
       ELSE lanes' = lanes \cup {lane} /\ pc' = pc
    /\ UNCHANGED <<prog, vec, phase, i, input, flags, intermediate, scalars, accs, iter,
                   clocks, stdout, status, bodies, runsB, stampB, redPhase>>

\* intermediate[vALL] = exp(-input[vALL]) / (input[vALL] + 0.1);  or the simd
\* loop over intermediate[i]: one index is stored
TransformB(lane) ==
    /\ pc = "transform_b"
    /\ MayStore(lane, lanes, vec)
    /\ intermediate' = [intermediate EXCEPT ![lane] = ElemB(input, intermediate, lane)]
    /\ runsB' = IF lanes = {} THEN runsB + 1 ELSE runsB
    /\ stampB' = [stampB EXCEPT ![lane] = runsB']
    /\ domainOK' = (domainOK /\ DivisorSafe(input[lane]))
    /\ IF lanes \cup {lane} = Idx
       THEN lanes' = {} /\ pc' = "reduce_count"
       ELSE lanes' = lanes \cup {lane} /\ pc' = pc
    /\ UNCHANGED <<prog, vec, phase, i, input, flags, output, scalars, accs, iter,
                   clocks, stdout, status, bodies, runsA, stampA, redPhase>>

\* int count = __sec_reduce_add(flags[vALL]);  or the reduction(+:count) loop
ReduceCount ==
    /\ pc = "reduce_count"
    /\ count' = ReduceInt(flags)
    /\ redPhase' = [redPhase EXCEPT !.count = phase]
    /\ pc' = "reduce_sum"
    /\ UNCHANGED <<prog, vec, phase, i, lanes, arrays, sum, sum2, accs, iter, clocks,
                   stdout, status, bodies, runsA, runsB, stampA, stampB, domainOK>>

\* double sum = __sec_reduce_add(output[vALL]);  or the reduction(+:sum) loop
ReduceSum ==
    /\ pc = "reduce_sum"
    /\ sum' = Reduce(output)
    /\ redPhase' = [redPhase EXCEPT !.sum = phase]
    /\ pc' = "reduce_sum2"
    /\ UNCHANGED <<prog, vec, phase, i, lanes, arrays, count, sum2, accs, iter, clocks,
                   stdout, status, bodies, runsA, runsB, stampA, stampB, domainOK>>

\* double sum2 = __sec_reduce_add(intermediate[vALL]);  or the reduction(+:sum2) loop
ReduceSum2 ==
    /\ pc = "reduce_sum2"
    /\ sum2' = Reduce(intermediate)
    /\ redPhase' = [redPhase EXCEPT !.sum2 = phase]
    /\ pc' = IF phase = "loop" THEN "accumulate" ELSE "print_vlength"
    /\ UNCHANGED <<prog, vec, phase, i, lanes, arrays, count, sum, accs, iter, clocks,
                   stdout, status, bodies, runsA, runsB, stampA, stampB, domainOK>>

\* acc_sum += sum; acc_sum2 += sum2; acc_count += count; } iter++
\* (count, sum and sum2 of the body end with it)
Accumulate ==
    /\ pc = "accumulate"
    /\ acc_sum' = FAdd(acc_sum, sum)
    /\ acc_sum2' = FAdd(acc_sum2, sum2)
    /\ acc_count' = IAdd(acc_count, count)
    /\ count' = IntIndet /\ sum' = Indet /\ sum2' = Indet
    /\ redPhase' = [count |-> "none", sum |-> "none", sum2 |-> "none"]
    /\ iter' = iter + 1
    /\ bodies' = bodies + 1
    /\ pc' = "loop"
    /\ UNCHANGED <<prog, vec, phase, i, lanes, arrays, clocks, stdout, status,
                   runsA, runsB, stampA, stampB, domainOK>>

\* clock_t end = clock(); elapsed_ms = (double)(end - start) / CLOCKS_PER_SEC * 1000.0
\* (a tick is a microsecond: elapsed_ms is kept in thousandths of a millisecond)
ClockEnd ==
    /\ pc = "clock_end"
    /\ \E t \in start .. MaxClock : end' = t /\ elapsed_ms' = t - start
    /\ pc' = "print_timing"
    /\ UNCHANGED <<prog, vec, phase, i, lanes, arrays, scalars, accs, iter, start,
                   stdout, status, history>>

Emit(line, next) ==
    /\ stdout' = Append(stdout, line)
    /\ pc' = next

\* printf("TIMING_MS=%.3f\n", elapsed_ms);
PrintTiming ==
    /\ pc = "print_timing"
    /\ Emit(IntLine("TIMING_MS", elapsed_ms), "print_iterations")
    /\ UNCHANGED <<prog, vec, phase, i, lanes, arrays, scalars, accs, iter, clocks,
                   status, history>>

\* Variant: the results are reported right after the timing lines, nothing
\* being computed again.  FinalRecomputation rejects it.
PrintIterationsThenReport ==
    /\ pc = "print_iterations"
    /\ Emit(IntLine("ITERATIONS", ITERATIONS), "print_vlength")
    /\ phase' = "final"
    /\ UNCHANGED <<prog, vec, i, lanes, arrays, scalars, accs, iter, clocks, status,
                   history>>

\* printf("ITERATIONS=%d\n", ITERATIONS); then the results: the OpenMP program
\* runs both transforms again, the Cilk Plus program goes on to the reductions
PrintIterations ==
    /\ pc = "print_iterations"
    /\ Emit(IntLine("ITERATIONS", ITERATIONS),
            IF prog = "openmp_simd" THEN "transform_a" ELSE "reduce_count")
    /\ phase' = "final"
    /\ UNCHANGED <<prog, vec, i, lanes, arrays, scalars, accs, iter, clocks, status,
                   history>>

\* printf("VLENGTH=%d\n", VLENGTH);
PrintVlength ==
    /\ pc = "print_vlength"
    /\ Emit(IntLine("VLENGTH", VLENGTH), "print_count")
    /\ UNCHANGED <<prog, vec, phase, i, lanes, arrays, scalars, accs, iter, clocks,
                   status, history>>

\* printf("REDUCTION_COUNT=%d\n", count);
PrintCount ==
    /\ pc = "print_count"
    /\ Emit(IntLine("REDUCTION_COUNT", count), "print_sum")
    /\ UNCHANGED <<prog, vec, phase, i, lanes, arrays, scalars, accs, iter, clocks,
                   status, history>>

\* Variant: in repetition mode the line shows the accumulated sum.
\* RepetitionMatchesSingleShot rejects it.
PrintSumOfAccumulator ==
    /\ pc = "print_sum"
    /\ Emit(DblLine("REDUCTION_SUM", IF Timed THEN acc_sum ELSE sum), "print_sum2")
    /\ UNCHANGED <<prog, vec, phase, i, lanes, arrays, scalars, accs, iter, clocks,
                   status, history>>

\* printf("REDUCTION_SUM=%.15g\n", sum);
PrintSum ==
    /\ pc = "print_sum"
    /\ Emit(DblLine("REDUCTION_SUM", sum), "print_sum2")
    /\ UNCHANGED <<prog, vec, phase, i, lanes, arrays, scalars, accs, iter, clocks,
                   status, history>>

\* printf("REDUCTION_SUM2=%.15g\n", sum2); for (int i = 0; ...
PrintSum2 ==
    /\ pc = "print_sum2"
    /\ Emit(DblLine("REDUCTION_SUM2", sum2), "print_output")
    /\ i' = 0
    /\ UNCHANGED <<prog, vec, phase, lanes, arrays, scalars, accs, iter, clocks,
                   status, history>>

\* Variant: the OUTPUT lines are printed from index 7 down.  OutputOrder rejects it.
PrintOutputDescending ==
    /\ pc = "print_output"
    /\ IF i < VLENGTH
       THEN /\ Emit(IdxLine("OUTPUT", VLENGTH - 1 - i, output[VLENGTH - 1 - i]), pc)
            /\ i' = i + 1
       ELSE pc' = "print_intermediate" /\ i' = 0 /\ stdout' = stdout
    /\ UNCHANGED <<prog, vec, phase, lanes, arrays, scalars, accs, iter, clocks,
                   status, history>>

\* for (int i = 0; i < VLENGTH; i++) printf("OUTPUT[%d]=%.15g\n", i, output[i]);
PrintOutput ==
    /\ pc = "print_output"
    /\ IF i < VLENGTH
       THEN Emit(IdxLine("OUTPUT", i, output[i]), pc) /\ i' = i + 1
       ELSE pc' = "print_intermediate" /\ i' = 0 /\ stdout' = stdout
    /\ UNCHANGED <<prog, vec, phase, lanes, arrays, scalars, accs, iter, clocks,
                   status, history>>

\* for (int i = 0; i < VLENGTH; i++) printf("INTERMEDIATE[%d]=%.15g\n", i, intermediate[i]);
PrintIntermediate ==
    /\ pc = "print_intermediate"
    /\ IF i < VLENGTH
       THEN Emit(IdxLine("INTERMEDIATE", i, intermediate[i]), pc) /\ i' = i + 1
       ELSE pc' = "return" /\ i' = i /\ stdout' = stdout
    /\ UNCHANGED <<prog, vec, phase, lanes, arrays, scalars, accs, iter, clocks,
                   status, history>>

\* return 0;
Return ==
    /\ pc = "return"
    /\ status' = 0
    /\ pc' = "exit"
    /\ UNCHANGED <<prog, vec, phase, i, lanes, arrays, scalars, accs, iter, clocks,
                   stdout, history>>

Next ==
    \/ Initialize \/ InitDone \/ ClockStart \/ LoopEnter \/ LoopExit
    \/ \E lane \in Idx : TransformA(lane)
    \/ \E lane \in Idx : TransformB(lane)
    \/ ReduceCount \/ ReduceSum \/ ReduceSum2 \/ Accumulate
    \/ ClockEnd \/ PrintTiming \/ PrintIterations
    \/ PrintVlength \/ PrintCount \/ PrintSum \/ PrintSum2
    \/ PrintOutput \/ PrintIntermediate \/ Return

Spec == Init /\ [][Next]_vars

(***************************************************************************)
(* Reference values: what the single-shot program computes and prints for  *)
(* the fixed tables, in a build of width w.                                *)
(***************************************************************************)
SingleShotOutput == [j \in Idx |-> ExprA(TEST_INPUT[j])]
SingleShotIntermediate == [j \in Idx |-> ExprB(TEST_INPUT[j])]

SingleShotLines(w) ==
    <<IntLine("VLENGTH", VLENGTH),
      IntLine("REDUCTION_COUNT", sec_reduce_add_int(TEST_FLAGS, w)),
      DblLine("REDUCTION_SUM", sec_reduce_add(SingleShotOutput, w)),
      DblLine("REDUCTION_SUM2", sec_reduce_add(SingleShotIntermediate, w))>>
    \o [k \in 1 .. VLENGTH |-> IdxLine("OUTPUT", k - 1, SingleShotOutput[k - 1])]
    \o [k \in 1 .. VLENGTH |-> IdxLine("INTERMEDIATE", k - 1, SingleShotIntermediate[k - 1])]

SingleShotPrinted == [w \in Widths |-> SingleShotLines(w)]

\* the lines of a run without its two timing lines
ResultLines == IF Timed THEN SubSeq(stdout, 3, Len(stdout)) ELSE stdout

\* the sequential left-to-right sum of v[0], ..., v[n - 1] from zero
RECURSIVE SeqSum(_, _)
SeqSum(v, n) == IF n = 0 THEN Lit0_0 ELSE FAdd(SeqSum(v, n - 1), v[n - 1])

RECURSIVE SeqCount(_, _)
SeqCount(v, n) == IF n = 0 THEN 0 ELSE SeqCount(v, n - 1) + v[n - 1]

(***************************************************************************)
(* C1.  The lines a repetition-mode run prints after its loop are exactly  *)
(* the lines a single-shot run prints, whatever the width of either build; *)
(* after every completed loop body the vectors and the would-be printed    *)
(* reductions are the single-shot ones; the accumulators, which differ     *)
(* from them, reach no printed line.                                       *)
(***************************************************************************)
RepetitionMatchesSingleShot ==
    /\ (pc = "exit" /\ ~Timed) => stdout = SingleShotPrinted[vec]
    /\ (pc = "exit" /\ Timed) => \A w \in Widths : ResultLines = SingleShotPrinted[w]
    /\ (Timed /\ pc = "loop" /\ iter >= 1) =>
           /\ output = SingleShotOutput
           /\ intermediate = SingleShotIntermediate
    /\ (Timed /\ pc = "accumulate") =>
           /\ IntLine("REDUCTION_COUNT", count) = SingleShotPrinted[vec][2]
           /\ DblLine("REDUCTION_SUM", sum) = SingleShotPrinted[vec][3]
           /\ DblLine("REDUCTION_SUM2", sum2) = SingleShotPrinted[vec][4]

\* a repetition-mode run has exited; its accumulators are not the printed sums
RepetitionMatchesSingleShotWitness ==
    /\ Timed /\ pc = "exit" /\ bodies = ITERATIONS
    /\ acc_sum # sum /\ acc_sum2 # sum2 /\ acc_count # count
    /\ ResultLines = SingleShotPrinted[1]
    /\ Len(stdout) = 2 * VLENGTH + 6

(***************************************************************************)
(* C2.  At exit the explicit-loop program and the array-notation programs  *)
(* agree with each other's results for the fixed tables, in builds of any  *)
(* width: the count exactly, both sums and every vector entry within       *)
(* 1e-12, absolutely and relatively.                                       *)
(***************************************************************************)
ImplementationsAgree ==
    pc = "exit" =>
        \A w \in Widths :
            LET c == IF prog = "openmp_simd" THEN sec_reduce_add_int(TEST_FLAGS, w)
                     ELSE omp_simd_reduction_int(TEST_FLAGS, w)
                s == IF prog = "openmp_simd" THEN sec_reduce_add(SingleShotOutput, w)
                     ELSE omp_simd_reduction(SingleShotOutput, w)
                t == IF prog = "openmp_simd" THEN sec_reduce_add(SingleShotIntermediate, w)
                     ELSE omp_simd_reduction(SingleShotIntermediate, w)
            IN  /\ count = c
                /\ WithinTol(sum, s)
                /\ WithinTol(sum2, t)
                /\ \A j \in Idx : /\ WithinTol(output[j], SingleShotOutput[j])
                                  /\ WithinTol(intermediate[j], SingleShotIntermediate[j])

\* the explicit-loop program has exited with a sum whose bits are not those
\* of the scalar array-notation build
ImplementationsAgreeWitness ==
    /\ prog = "openmp_simd" /\ pc = "exit"
    /\ sum # sec_reduce_add(SingleShotOutput, 1)
    /\ WithinTol(sum, sec_reduce_add(SingleShotOutput, 1))
    /\ count = sec_reduce_add_int(TEST_FLAGS, 1)

(***************************************************************************)
(* C3.  Whenever a reduction has run, sum and sum2 are within 1e-12 of the *)
(* sequential left-to-right sums from zero of output and intermediate, and *)
(* they print as those sequential sums print; the lane-wise evaluations    *)
(* may differ from the sequential sum in the last bit.                     *)
(***************************************************************************)
ReductionIsSequentialSum ==
    /\ redPhase.sum # "none" =>
           /\ WithinTol(sum, SeqSum(output, VLENGTH))
           /\ FormatG(sum) = FormatG(SeqSum(output, VLENGTH))
           /\ vec = 1 => sum = SeqSum(output, VLENGTH)
    /\ redPhase.sum2 # "none" =>
           /\ WithinTol(sum2, SeqSum(intermediate, VLENGTH))
           /\ FormatG(sum2) = FormatG(SeqSum(intermediate, VLENGTH))
           /\ vec = 1 => sum2 = SeqSum(intermediate, VLENGTH)
    /\ pc = "exit" =>
           /\ ResultLines[3] = DblLine("REDUCTION_SUM", SeqSum(output, VLENGTH))
           /\ ResultLines[4] = DblLine("REDUCTION_SUM2", SeqSum(intermediate, VLENGTH))

\* a lane-wise reduction has given a sum that is not the sequential sum bit for bit
ReductionIsSequentialSumWitness ==
    /\ vec > 1 /\ redPhase.sum # "none" /\ redPhase.sum2 # "none"
    /\ sum # SeqSum(output, VLENGTH)
    /\ WithinTol(sum, SeqSum(output, VLENGTH))

(***************************************************************************)
(* C4.  Whenever the count reduction has run, in any program, in any loop  *)
(* iteration and after the loop, count is the sum of the eight flags,      *)
(* which is 5; the REDUCTION_COUNT line prints 5.                          *)
(***************************************************************************)
CountIsFive ==
    /\ redPhase.count # "none" => count = SeqCount(flags, VLENGTH) /\ count = 5
    /\ \A k \in 1 .. Len(stdout) : stdout[k].key = "REDUCTION_COUNT" => stdout[k].int = 5

\* the count reduction of a loop iteration other than the first has run
CountIsFiveWitness ==
    /\ Timed /\ phase = "loop" /\ iter = ITERATIONS - 1
    /\ redPhase.count = "loop" /\ count = 5

(***************************************************************************)
(* C5.  What has been printed is always a prefix of the expected sequence  *)
(* of lines (the two timing lines only in repetition mode, then VLENGTH,   *)
(* the three reductions, OUTPUT[0..7] and INTERMEDIATE[0..7] ascending),   *)
(* the whole sequence at exit, so each line is printed once and in order;  *)
(* a printed OUTPUT or INTERMEDIATE line shows a number, the entry a       *)
(* transform has stored.                                                   *)
(***************************************************************************)
TimingKeys == << <<"TIMING_MS", 0 - 1>>, <<"ITERATIONS", 0 - 1>> >>
ResultKeys ==
    << <<"VLENGTH", 0 - 1>>, <<"REDUCTION_COUNT", 0 - 1>>,
       <<"REDUCTION_SUM", 0 - 1>>, <<"REDUCTION_SUM2", 0 - 1>> >>
    \o [k \in 1 .. VLENGTH |-> <<"OUTPUT", k - 1>>]
    \o [k \in 1 .. VLENGTH |-> <<"INTERMEDIATE", k - 1>>]
ExpectedKeys == IF Timed THEN TimingKeys \o ResultKeys ELSE ResultKeys
KeysOf(s) == [k \in 1 .. Len(s) |-> <<s[k].key, s[k].idx>>]
IsNumber(t) == t.style \in {"f", "e"}

OutputOrder ==
    /\ Len(stdout) <= Len(ExpectedKeys)
    /\ KeysOf(stdout) = SubSeq(ExpectedKeys, 1, Len(stdout))
    /\ pc = "exit" => KeysOf(stdout) = ExpectedKeys
    /\ \A k \in 1 .. Len(stdout) :
           /\ stdout[k].key = "OUTPUT" =>
                  /\ stampA[stdout[k].idx] >= 1
                  /\ IsNumber(stdout[k].txt)
                  /\ stdout[k].txt = FormatG(output[stdout[k].idx])
           /\ stdout[k].key = "INTERMEDIATE" =>
                  /\ stampB[stdout[k].idx] >= 1
                  /\ IsNumber(stdout[k].txt)
                  /\ stdout[k].txt = FormatG(intermediate[stdout[k].idx])

\* a repetition-mode run has printed its last line
OutputOrderWitness ==
    /\ Timed /\ pc = "return"
    /\ Len(stdout) = 2 * VLENGTH + 6
    /\ stdout[1].key = "TIMING_MS"
    /\ stdout[Len(stdout)] = IdxLine("INTERMEDIATE", VLENGTH - 1, intermediate[VLENGTH - 1])

(***************************************************************************)
(* C6.  In repetition mode, when the lines after the timing lines are      *)
(* printed, the three reductions have been computed again after the loop   *)
(* and the printed reductions are those; the OpenMP program has also run   *)
(* both transforms again after the loop, the Cilk Plus program has not:    *)
(* it prints the vectors its last loop body left.                          *)
(***************************************************************************)
Reporting ==
    {"print_vlength", "print_count", "print_sum", "print_sum2", "print_output",
     "print_intermediate", "return", "exit"}

FinalRecomputation ==
    (Timed /\ pc \in Reporting) =>
        /\ redPhase = [count |-> "final", sum |-> "final", sum2 |-> "final"]
        /\ prog = "openmp_simd" => runsA = ITERATIONS + 1 /\ runsB = ITERATIONS + 1
        /\ prog = "cilk_timed" => runsA = ITERATIONS /\ runsB = ITERATIONS
        /\ \A j \in Idx : stampA[j] = runsA /\ stampB[j] = runsB
        /\ pc = "exit" =>
               /\ ResultLines[2] = IntLine("REDUCTION_COUNT", count)
               /\ ResultLines[3] = DblLine("REDUCTION_SUM", sum)
               /\ ResultLines[4] = DblLine("REDUCTION_SUM2", sum2)

\* the Cilk Plus repetition-mode program reports after 100 runs of the
\* transform and a reduction made after the loop
FinalRecomputationWitness ==
    /\ prog = "cilk_timed" /\ pc = "print_vlength"
    /\ runsA = ITERATIONS /\ runsB = ITERATIONS
    /\ redPhase.sum = "final"

\* C6 as stated: in repetition mode the transform too has run once more
\* after the loop when the results are reported
TransformRecomputedAfterLoop ==
    (Timed /\ pc \in Reporting) =>
        /\ redPhase = [count |-> "final", sum |-> "final", sum2 |-> "final"]
        /\ runsA = ITERATIONS + 1 /\ runsB = ITERATIONS + 1

(***************************************************************************)
(* C7.  Every log, exp and division so far had an operand in its domain    *)
(* (input[i] > 0, input[i] + 0.1 # 0); no vector entry, sum or accumulator *)
(* is an infinity or a NaN; input and flags hold the tables from the end   *)
(* of the initialisation on, and what the initialisation has stored so far *)
(* before.                                                                 *)
(***************************************************************************)
NoExc(x) == x.k # "exc"
TableInDomain == \A j \in Idx : SafeA(TEST_INPUT[j]) /\ SafeB(TEST_INPUT[j])

SafeDomain ==
    /\ domainOK
    /\ \A j \in Idx : NoExc(input[j]) /\ NoExc(output[j]) /\ NoExc(intermediate[j])
    /\ NoExc(sum) /\ NoExc(sum2) /\ NoExc(acc_sum) /\ NoExc(acc_sum2)
    /\ pc # "init" =>
           /\ input = TEST_INPUT /\ flags = TEST_FLAGS
           /\ TableInDomain
    /\ pc = "init" => \A j \in 0 .. i - 1 : input[j] = TEST_INPUT[j] /\ flags[j] = TEST_FLAGS[j]
    /\ \A k \in 1 .. Len(stdout) : stdout[k].txt.style # "nan"

\* log, exp and the division have been applied in the last loop iteration
SafeDomainWitness ==
    /\ pc = "transform_b" /\ lanes = {0, 1, 2} /\ phase = "loop" /\ iter = ITERATIONS - 1
    /\ domainOK
    /\ IsFin(intermediate[2]) /\ IsFin(output[VLENGTH - 1])

(***************************************************************************)
(* C8.  Every run reaches its exit, with status 0 and with all of its      *)
(* lines printed; no other status is ever set; in repetition mode the loop *)
(* body has then run exactly ITERATIONS = 100 times, which is the number   *)
(* the ITERATIONS line shows, and the post-loop code has added no body.    *)
(***************************************************************************)
FairSpec == Spec /\ WF_vars(Next)

ExitState ==
    /\ status = 0
    /\ KeysOf(stdout) = ExpectedKeys
    /\ Timed => /\ bodies = ITERATIONS /\ iter = ITERATIONS /\ ITERATIONS = 100
                /\ stdout[2] = IntLine("ITERATIONS", bodies)
                /\ acc_count = bodies * count
    /\ ~Timed => bodies = 0

TerminatesWithZero ==
    /\ [](status \in {IntIndet, 0})
    /\ [](status = 0 <=> pc = "exit")
    /\ [](bodies <= ITERATIONS)
    /\ [](pc = "exit" => ExitState)
    /\ <>(pc = "exit")

\* a repetition-mode run has exited after its 100 loop bodies
TerminatesWithZeroWitness ==
    /\ Timed /\ pc = "exit" /\ status = 0
    /\ bodies = ITERATIONS /\ stdout[2].int = bodies
    /\ Len(stdout) = 2 * VLENGTH + 6

(***************************************************************************)
(* C9.  In whatever order the lanes of a transform are stored, every entry *)
(* of output and of intermediate that has been stored is the entry         *)
(* ascending sequential evaluation stores, and every other entry is still  *)
(* unset: no entry depends on the order or on another index.               *)
(***************************************************************************)
RECURSIVE AscendingA(_, _, _)
AscendingA(inp, out, n) ==
    IF n = 0 THEN out
    ELSE LET prev == AscendingA(inp, out, n - 1)
         IN  [prev EXCEPT ![n - 1] = ElemA(inp, prev, n - 1)]

RECURSIVE AscendingB(_, _, _)
AscendingB(inp, mid, n) ==
    IF n = 0 THEN mid
    ELSE LET prev == AscendingB(inp, mid, n - 1)
         IN  [prev EXCEPT ![n - 1] = ElemB(inp, prev, n - 1)]

Unset == [j \in Idx |-> Indet]
AscendingOutput == AscendingA(TEST_INPUT, Unset, VLENGTH)
AscendingIntermediate == AscendingB(TEST_INPUT, Unset, VLENGTH)
\* a further ascending run over its own result stores the same entries
AscendingRerun ==
    /\ AscendingA(TEST_INPUT, AscendingOutput, VLENGTH) = AscendingOutput
    /\ AscendingB(TEST_INPUT, AscendingIntermediate, VLENGTH) = AscendingIntermediate

LanesIndependent ==
    /\ AscendingRerun
    /\ \A j \in Idx :
           /\ output[j] = IF stampA[j] >= 1 THEN AscendingOutput[j] ELSE Indet
           /\ intermediate[j] = IF stampB[j] >= 1 THEN AscendingIntermediate[j] ELSE Indet
    /\ pc = "transform_a" => \A j \in Idx :
           stampA[j] = IF j \in lanes \/ lanes = {} THEN runsA ELSE runsA - 1
    /\ pc = "transform_b" => \A j \in Idx :
           stampB[j] = IF j \in lanes \/ lanes = {} THEN runsB ELSE runsB - 1

\* lanes 7 and 5 of both transforms have been stored before every other lane
LanesIndependentWitness ==
    /\ pc = "transform_b" /\ lanes = {VLENGTH - 1, VLENGTH - 3} /\ runsB = 1
    /\ intermediate[VLENGTH - 1] = AscendingIntermediate[VLENGTH - 1]
    /\ intermediate[0] = Indet
    /\ output = AscendingOutput

(***************************************************************************)
(* C10.  The four vectors have the eight indices 0..7 throughout.  Once a  *)
(* run of a transform is complete every entry was stored by that run and   *)
(* is -log(input[i]) * 2.0, or exp(-input[i]) / (input[i] + 0.1); the      *)
(* reductions and the prints run only then, on entries that are numbers.   *)
(***************************************************************************)
FormulaA == [j \in Idx |-> FMul2(FNeg(log(TEST_INPUT[j])))]
FormulaB == [j \in Idx |-> FDiv(exp(FNeg(TEST_INPUT[j])), FAdd(TEST_INPUT[j], Lit0_1))]

CompleteA == runsA >= 1 /\ ~(pc = "transform_a" /\ lanes # {})
CompleteB == runsB >= 1 /\ ~(pc = "transform_b" /\ lanes # {})
Readers ==
    {"reduce_count", "reduce_sum", "reduce_sum2", "print_output", "print_intermediate"}

FullyRecomputed ==
    /\ DOMAIN input = Idx /\ DOMAIN flags = Idx
    /\ DOMAIN output = Idx /\ DOMAIN intermediate = Idx
    /\ CompleteA => \A j \in Idx :
           stampA[j] = runsA /\ input[j] = TEST_INPUT[j] /\ output[j] = FormulaA[j]
    /\ CompleteB => \A j \in Idx :
           stampB[j] = runsB /\ input[j] = TEST_INPUT[j] /\ intermediate[j] = FormulaB[j]
    /\ pc \in Readers =>
           /\ CompleteA /\ CompleteB
           /\ runsA = runsB /\ runsA >= bodies
           /\ \A j \in Idx : IsFin(output[j]) /\ IsFin(intermediate[j])

\* the sum reduction of the second loop body reads the entries the second
\* run of the transform stored
FullyRecomputedWitness ==
    /\ pc = "reduce_sum" /\ phase = "loop" /\ runsA = 2 /\ runsB = 2
    /\ \A j \in Idx : stampA[j] = 2 /\ output[j] = FormulaA[j]

=============================================================================
